---- MODULE Spec2Model ----
(***************************************************************************)
(* agent-kit installer (bin/cli.js): the directory synchronizer            *)
(* copyDirRecursive, the category installer install(), and the main        *)
(* program with its auto-install guard, over a model of the file system.   *)
(*                                                                         *)
(* A path is a sequence of names; the file system is a function from the   *)
(* paths that exist to nodes.  File content is a sequence of byte symbols. *)
(***************************************************************************)
EXTENDS Integers, Sequences, FiniteSets, TLC

VARIABLES
    fs,           \* the file system: path -> node, for the paths that exist
    dirOrder,     \* the order in which the platform's readdir yields names
    pc,           \* position of the running process ("idle" before any run)
    options,      \* the parsed options of the current / last invocation
    catIndex,     \* install(): index of the next entry of contentDirs
    totalCopied,  \* install(): totalCopied
    totalSkipped, \* install(): totalSkipped
    call,         \* the arguments of the last direct copyDirRecursive call
    result,       \* what that call returned: copied, skipped, err
    fsBefore,     \* the file system when the current / last run started
    prev,         \* the run before the last one: its arguments and result
    runs,         \* number of runs started so far
    argv          \* process.argv.slice(2) of the current / last invocation

vars == <<fs, dirOrder, pc, options, catIndex, totalCopied, totalSkipped,
          call, result, fsBefore, prev, runs, argv>>

----------------------------------------------------------------------------
(* Bounds *)

\* length of the file contents drawn at Init
MaxLen == 2
\* number of consecutive runs (direct calls, or invocations of the command)
MaxRuns == 2
\* number of entries the consumer's project holds before the first run
MaxPre == 1
\* length of the argument lists parseArgs is given
MaxArgs == 3
\* longest path the platform accepts (PATH_MAX, scaled to the model)
MaxPathLen == 6

----------------------------------------------------------------------------
(* Byte symbols and text *)

\* the bytes file contents are drawn from: "x" is a character, "bad" a byte
\* that is not valid UTF-8.  "fffd" stands for the encoding of U+FFFD and
\* "nl" for a newline.
Alphabet == {"x", "bad"}

RECURSIVE SeqsUpTo(_, _)
SeqsUpTo(S, n) ==
    IF n = 0 THEN {<<>>}
    ELSE LET shorter == SeqsUpTo(S, n - 1)
         IN  shorter \cup {Append(s, c) : s \in {t \in shorter : Len(t) = n - 1}, c \in S}

\* Buffer.toString('utf-8'): every invalid byte decodes to U+FFFD
decodeUtf8(bytes) ==
    [i \in 1..Len(bytes) |-> IF bytes[i] = "bad" THEN "fffd" ELSE bytes[i]]

\* String.prototype.includes
includes(existing, incoming) ==
    \E i \in 0..(Len(existing) - Len(incoming)) :
        SubSeq(existing, i + 1, i + Len(incoming)) = incoming

\* the separator '\n\n' written between the existing and the incoming text
Separator == <<"nl", "nl">>

IsPrefix(s, t) == Len(s) <= Len(t) /\ SubSeq(t, 1, Len(s)) = s

SeqToSet(s) == {s[i] : i \in 1..Len(s)}

----------------------------------------------------------------------------
(* The file system *)

\* a node: its kind, its bytes (a file's content), and whether the process
\* may create entries in it (a directory's write permission)
Dir == [kind |-> "dir", bytes |-> <<>>, writable |-> TRUE]
File(b) == [kind |-> "file", bytes |-> b, writable |-> TRUE]

\* a directory the process may read and search but not write
LockedDir == [Dir EXCEPT !.writable = FALSE]

\* the names a listed directory can hold, in one enumeration order
NameOrder == <<".github", ".gitkeep", "a.md", "agents", "b.txt",
               "copilot-instructions.md", "instructions", "prompts",
               "skills", "sub">>

Reverse(s) == [i \in 1..Len(s) |-> s[Len(s) + 1 - i]]

DirOrders == {NameOrder, Reverse(NameOrder)}

\* entry.endsWith('.md')
MarkdownNames == {"a.md", "copilot-instructions.md"}
endsWithMd(entry) == entry \in MarkdownNames

join(p, entry) == Append(p, entry)

existsSync(f, p) == p \in DOMAIN f

isDirectory(f, p) == f[p].kind = "dir"

\* f with node n at path p
Put(f, p, n) == (p :> n) @@ f

\* mkdirSync(p, { recursive: true }): creates the missing ancestors and p;
\* fails when p or an ancestor is a file, or the path is too long
mkdirBlocked(f, p) ==
    \E k \in 1..Len(p) : SubSeq(p, 1, k) \in DOMAIN f /\ f[SubSeq(p, 1, k)].kind = "file"

\* p is to be created in a directory that exists and is not writable
createDenied(f, p) ==
    /\ p \notin DOMAIN f
    /\ \E k \in 1..(Len(p) - 1) :
          /\ SubSeq(p, 1, k) \in DOMAIN f
          /\ SubSeq(p, 1, k + 1) \notin DOMAIN f
          /\ ~f[SubSeq(p, 1, k)].writable

mkdirSync(f, p) ==
    IF Len(p) > MaxPathLen THEN [fs |-> f, err |-> "ENAMETOOLONG"]
    ELSE IF mkdirBlocked(f, p) THEN
        [fs |-> f,
         err |-> IF existsSync(f, p) /\ f[p].kind = "file" THEN "EEXIST" ELSE "ENOTDIR"]
    ELSE IF createDenied(f, p) THEN [fs |-> f, err |-> "EACCES"]
    ELSE [fs |-> [q \in DOMAIN f \cup {SubSeq(p, 1, k) : k \in 1..Len(p)} |->
                    IF q \in DOMAIN f THEN f[q] ELSE Dir],
          err |-> "none"]

\* readdirSync(p): the names directly under p, in the platform's order
readdirSync(f, p, ord) == SelectSeq(ord, LAMBDA n : join(p, n) \in DOMAIN f)

\* copyFileSync(src, dest): fails when dest is a directory, or is to be
\* created in a directory that is not writable
copyFileSync(f, src, dest) ==
    IF existsSync(f, dest) /\ isDirectory(f, dest) THEN [fs |-> f, err |-> "EISDIR"]
    ELSE IF createDenied(f, dest) THEN [fs |-> f, err |-> "EACCES"]
    ELSE [fs |-> Put(f, dest, File(f[src].bytes)), err |-> "none"]

\* writeFileSync(p, text): the text is written UTF-8 encoded
writeFileSync(f, p, text) == Put(f, p, File(text))

----------------------------------------------------------------------------
(* copyDirRecursive *)

Result(f, c, s, e) == [fs |-> f, copied |-> c, skipped |-> s, err |-> e]

\* skipExisting, had it copied the source over the destination it records
skipExistingOverwrites(st, srcPath, destPath) ==
    [st EXCEPT !.fs = Put(st.fs, destPath, File(st.fs[srcPath].bytes)),
               !.skipped = Append(@, destPath)]

\* skipExisting, had it pushed the path to copied
skipExistingAsCopied(st, srcPath, destPath) ==
    [st EXCEPT !.copied = Append(@, destPath)]

\* onConflict === 'skip' and the destination exists: record it, touch nothing
skipExisting(st, srcPath, destPath) ==
    [st EXCEPT !.skipped = Append(@, destPath)]

\* mergeMarkdown, had it written the incoming text alone
mergeMarkdownReplaces(st, srcPath, destPath) ==
    IF isDirectory(st.fs, destPath) THEN [st EXCEPT !.err = "EISDIR"]
    ELSE LET existing == decodeUtf8(st.fs[destPath].bytes)
             incoming == decodeUtf8(st.fs[srcPath].bytes)
         IN  IF ~includes(existing, incoming) THEN
                 [st EXCEPT !.fs = writeFileSync(st.fs, destPath, incoming),
                            !.copied = Append(@, destPath)]
             ELSE [st EXCEPT !.skipped = Append(@, destPath)]

\* mergeMarkdown without the includes test
mergeMarkdownAlwaysAppends(st, srcPath, destPath) ==
    IF isDirectory(st.fs, destPath) THEN [st EXCEPT !.err = "EISDIR"]
    ELSE LET existing == decodeUtf8(st.fs[destPath].bytes)
             incoming == decodeUtf8(st.fs[srcPath].bytes)
         IN  [st EXCEPT !.fs = writeFileSync(st.fs, destPath,
                                             existing \o Separator \o incoming),
                        !.copied = Append(@, destPath)]

\* onConflict === 'merge', a .md entry and the destination exists: append the
\* incoming text unless the existing text already includes it
mergeMarkdown(st, srcPath, destPath) ==
    IF isDirectory(st.fs, destPath) THEN [st EXCEPT !.err = "EISDIR"]
    ELSE LET existing == decodeUtf8(st.fs[destPath].bytes)
             incoming == decodeUtf8(st.fs[srcPath].bytes)
         IN  IF ~includes(existing, incoming) THEN
                 [st EXCEPT !.fs = writeFileSync(st.fs, destPath,
                                                 existing \o Separator \o incoming),
                            !.copied = Append(@, destPath)]
             ELSE [st EXCEPT !.skipped = Append(@, destPath)]

\* copyOver without the copied.push(destPath)
copyOverUnrecorded(st, srcPath, destPath) ==
    LET c == copyFileSync(st.fs, srcPath, destPath)
    IN  IF c.err # "none" THEN [st EXCEPT !.err = c.err]
        ELSE [st EXCEPT !.fs = c.fs]

\* the fall-through: copyFileSync(srcPath, destPath); copied.push(destPath)
copyOver(st, srcPath, destPath) ==
    LET c == copyFileSync(st.fs, srcPath, destPath)
    IN  IF c.err # "none" THEN [st EXCEPT !.err = c.err]
        ELSE [st EXCEPT !.fs = c.fs, !.copied = Append(@, destPath)]

\* copyFileEntry, had the merge branch not tested existsSync(destPath): a new
\* .md file is written as the separator followed by the decoded source text
copyFileEntryMergesAbsent(st, entry, srcPath, destPath, onConflict) ==
    IF existsSync(st.fs, destPath) /\ onConflict = "skip" THEN
        skipExisting(st, srcPath, destPath)
    ELSE IF onConflict = "merge" /\ endsWithMd(entry) THEN
        IF existsSync(st.fs, destPath) THEN mergeMarkdown(st, srcPath, destPath)
        ELSE [st EXCEPT !.fs = writeFileSync(st.fs, destPath,
                                  Separator \o decodeUtf8(st.fs[srcPath].bytes)),
                        !.copied = Append(@, destPath)]
    ELSE copyOver(st, srcPath, destPath)

\* one iteration of the loop body for a file entry (the else branch)
copyFileEntry(st, entry, srcPath, destPath, onConflict) ==
    IF existsSync(st.fs, destPath) /\ onConflict = "skip" THEN
        skipExisting(st, srcPath, destPath)
    ELSE IF existsSync(st.fs, destPath) /\ onConflict = "merge" /\ endsWithMd(entry) THEN
        mergeMarkdown(st, srcPath, destPath)
    ELSE copyOver(st, srcPath, destPath)

RECURSIVE copyDirRecursive(_, _, _, _, _)
RECURSIVE copyEntries(_, _, _, _, _, _)

\* copyEntries, had it put a subdirectory's paths in front of the paths pushed
\* so far
copyEntriesChildrenFirst(st, entries, src, dest, onConflict, ord) ==
    IF entries = <<>> \/ st.err # "none" THEN st
    ELSE LET entry == Head(entries)
             srcPath == join(src, entry)
             destPath == join(dest, entry)
             next ==
                 IF isDirectory(st.fs, srcPath) THEN
                     LET r == copyDirRecursive(st.fs, srcPath, destPath, onConflict, ord)
                     IN  Result(r.fs, r.copied \o st.copied, r.skipped \o st.skipped, r.err)
                 ELSE copyFileEntry(st, entry, srcPath, destPath, onConflict)
         IN  copyEntries(next, Tail(entries), src, dest, onConflict, ord)

\* copyEntries without the else: a directory entry is descended into and then
\* handled as a file entry as well
copyEntriesMissingElse(st, entries, src, dest, onConflict, ord) ==
    IF entries = <<>> \/ st.err # "none" THEN st
    ELSE LET entry == Head(entries)
             srcPath == join(src, entry)
             destPath == join(dest, entry)
             next ==
                 IF isDirectory(st.fs, srcPath) THEN
                     LET r == copyDirRecursive(st.fs, srcPath, destPath, onConflict, ord)
                         d == Result(r.fs, st.copied \o r.copied, st.skipped \o r.skipped, r.err)
                     IN  IF d.err # "none" THEN d
                         ELSE copyFileEntry(d, entry, srcPath, destPath, onConflict)
                 ELSE copyFileEntry(st, entry, srcPath, destPath, onConflict)
         IN  copyEntries(next, Tail(entries), src, dest, onConflict, ord)

\* copyEntries, had it caught the error of an iteration, gone on with the
\* remaining entries and thrown the error after the loop
copyEntriesKeepsGoing(st, entries, src, dest, onConflict, ord) ==
    IF entries = <<>> \/ st.err # "none" THEN st
    ELSE LET entry == Head(entries)
             srcPath == join(src, entry)
             destPath == join(dest, entry)
             next ==
                 IF isDirectory(st.fs, srcPath) THEN
                     LET r == copyDirRecursive(st.fs, srcPath, destPath, onConflict, ord)
                     IN  Result(r.fs, st.copied \o r.copied, st.skipped \o r.skipped, r.err)
                 ELSE copyFileEntry(st, entry, srcPath, destPath, onConflict)
             rest == copyEntries([next EXCEPT !.err = "none"], Tail(entries),
                                 src, dest, onConflict, ord)
         IN  IF next.err # "none" THEN [rest EXCEPT !.err = next.err] ELSE rest

\* the for loop over entries; an error thrown by an iteration ends the loop
copyEntries(st, entries, src, dest, onConflict, ord) ==
    IF entries = <<>> \/ st.err # "none" THEN st
    ELSE LET entry == Head(entries)
             srcPath == join(src, entry)
             destPath == join(dest, entry)
             next ==
                 IF isDirectory(st.fs, srcPath) THEN
                     LET r == copyDirRecursive(st.fs, srcPath, destPath, onConflict, ord)
                     IN  Result(r.fs, st.copied \o r.copied, st.skipped \o r.skipped, r.err)
                 ELSE copyFileEntry(st, entry, srcPath, destPath, onConflict)
         IN  copyEntries(next, Tail(entries), src, dest, onConflict, ord)

\* copyDirRecursive without the existsSync(src) test: readdirSync(src) throws
copyDirRecursiveUnguarded(f, src, dest, onConflict, ord) ==
    LET m == mkdirSync(f, dest)
    IN  IF m.err # "none" THEN Result(f, <<>>, <<>>, m.err)
        ELSE IF ~existsSync(m.fs, src) THEN Result(m.fs, <<>>, <<>>, "ENOENT")
        ELSE IF ~isDirectory(m.fs, src) THEN Result(m.fs, <<>>, <<>>, "ENOTDIR")
        ELSE copyEntries(Result(m.fs, <<>>, <<>>, "none"),
                         readdirSync(m.fs, src, ord), src, dest, onConflict, ord)

\* copyDirRecursive with mkdirSync(dest) moved before the existsSync(src) test
copyDirRecursiveMkdirFirst(f, src, dest, onConflict, ord) ==
    LET m == mkdirSync(f, dest)
    IN  IF m.err # "none" THEN Result(f, <<>>, <<>>, m.err)
        ELSE IF ~existsSync(m.fs, src) THEN Result(m.fs, <<>>, <<>>, "none")
        ELSE IF ~isDirectory(m.fs, src) THEN Result(m.fs, <<>>, <<>>, "ENOTDIR")
        ELSE copyEntries(Result(m.fs, <<>>, <<>>, "none"),
                         readdirSync(m.fs, src, ord), src, dest, onConflict, ord)

\* copyDirRecursive, had it created dest only when src has entries
copyDirRecursiveLazyMkdir(f, src, dest, onConflict, ord) ==
    IF ~existsSync(f, src) THEN Result(f, <<>>, <<>>, "none")
    ELSE IF ~isDirectory(f, src) THEN Result(f, <<>>, <<>>, "ENOTDIR")
    ELSE IF readdirSync(f, src, ord) = <<>> THEN Result(f, <<>>, <<>>, "none")
    ELSE LET m == mkdirSync(f, dest)
         IN  IF m.err # "none" THEN Result(f, <<>>, <<>>, m.err)
             ELSE copyEntries(Result(m.fs, <<>>, <<>>, "none"),
                              readdirSync(m.fs, src, ord), src, dest, onConflict, ord)

copyDirRecursive(f, src, dest, onConflict, ord) ==
    IF ~existsSync(f, src) THEN Result(f, <<>>, <<>>, "none")
    ELSE LET m == mkdirSync(f, dest)
         IN  IF m.err # "none" THEN Result(f, <<>>, <<>>, m.err)
             ELSE IF ~isDirectory(m.fs, src) THEN Result(m.fs, <<>>, <<>>, "ENOTDIR")
             ELSE copyEntries(Result(m.fs, <<>>, <<>>, "none"),
                              readdirSync(m.fs, src, ord), src, dest, onConflict, ord)

----------------------------------------------------------------------------
(* Trees the runs start from *)

Ancestors(p) == {SubSeq(p, 1, k) : k \in 1..(Len(p) - 1)}

\* the file system holding the given <<path, node>> entries and, as
\* directories, all their ancestors
MakeTree(entries) ==
    LET paths == {e[1] : e \in entries}
        all == paths \cup UNION {Ancestors(p) : p \in paths}
    IN  [q \in all |-> IF q \in paths THEN (CHOOSE e \in entries : e[1] = q)[2] ELSE Dir]

NoOptions ==
    [agents |-> FALSE, skills |-> FALSE, prompts |-> FALSE, instructions |-> FALSE,
     all |-> FALSE, auto |-> FALSE, help |-> FALSE, list |-> FALSE, dest |-> <<>>]

NoCall == [src |-> <<>>, dest |-> <<>>, onConflict |-> "none"]

NoResult == [copied |-> <<>>, skipped |-> <<>>, err |-> "none"]

NoPrev == [call |-> NoCall, options |-> NoOptions, copied |-> <<>>, skipped |-> <<>>,
           err |-> "none", pc |-> "idle", fs |-> <<>>]

----------------------------------------------------------------------------
(* parseArgs *)

PACKAGE_ROOT == <<"pkg">>

\* process.cwd()
CWD == <<"proj">>

\* the path an argument names: absolute, or relative to the working directory
PathOf(arg) ==
    IF arg = "/pkg" THEN PACKAGE_ROOT
    ELSE IF arg = "/pkg/agents" THEN join(PACKAGE_ROOT, "agents")
    ELSE IF arg = "/other" THEN <<"other">>
    ELSE join(CWD, arg)

\* the switch statement for one argument that is not --dest / -d
setFlag(o, arg) ==
    IF arg \in {"--agents", "-a"} THEN [o EXCEPT !.agents = TRUE]
    ELSE IF arg \in {"--skills", "-s"} THEN [o EXCEPT !.skills = TRUE]
    ELSE IF arg \in {"--prompts", "-p"} THEN [o EXCEPT !.prompts = TRUE]
    ELSE IF arg \in {"--instructions", "-i"} THEN [o EXCEPT !.instructions = TRUE]
    ELSE IF arg = "--all" THEN [o EXCEPT !.all = TRUE]
    ELSE IF arg = "--auto" THEN [o EXCEPT !.auto = TRUE]
    ELSE IF arg \in {"--help", "-h"} THEN [o EXCEPT !.help = TRUE]
    ELSE IF arg \in {"--list", "-l"} THEN [o EXCEPT !.list = TRUE]
    ELSE o

RECURSIVE parseLoop(_, _, _)
\* the for loop over args; --dest takes the next argument, or cwd without one
parseLoop(o, args, i) ==
    IF i > Len(args) THEN o
    ELSE IF args[i] \in {"--dest", "-d"} THEN
        parseLoop([o EXCEPT !.dest = IF i + 1 <= Len(args) /\ args[i + 1] # ""
                                      THEN PathOf(args[i + 1]) ELSE CWD],
                  args, i + 2)
    ELSE parseLoop(setFlag(o, args[i]), args, i + 1)

\* parseArgs without the default to all
parseArgsWithoutDefault(args) == parseLoop([NoOptions EXCEPT !.dest = CWD], args, 1)

parseArgs(args) ==
    LET o == parseLoop([NoOptions EXCEPT !.dest = CWD], args, 1)
        hasSpecific == o.agents \/ o.skills \/ o.prompts \/ o.instructions
    IN  IF ~hasSpecific /\ ~o.all /\ ~o.help /\ ~o.list THEN [o EXCEPT !.all = TRUE] ELSE o

----------------------------------------------------------------------------
(* install *)

contentDirs == <<"agents", "skills", "prompts", "instructions">>

\* contentDirs, had the flags of agents and skills been exchanged
categoryFlagSwapped(opts, name) ==
    IF name = "agents" THEN opts.skills
    ELSE IF name = "skills" THEN opts.agents
    ELSE IF name = "prompts" THEN opts.prompts
    ELSE opts.instructions

categoryFlag(opts, name) ==
    IF name = "agents" THEN opts.agents
    ELSE IF name = "skills" THEN opts.skills
    ELSE IF name = "prompts" THEN opts.prompts
    ELSE opts.instructions

\* githubDir, had it been taken under the package root
githubDirOfPackage(opts) == join(PACKAGE_ROOT, ".github")

githubDirOf(opts) == join(opts.dest, ".github")

\* installCategory without the .gitkeep filter and the empty test
installCategoryCopiesPlaceholder(st, name, opts, ord) ==
    LET src == join(PACKAGE_ROOT, name)
        dest == join(githubDirOf(opts), name)
    IN  IF ~(opts.all \/ categoryFlag(opts, name)) THEN st
        ELSE IF ~existsSync(st.fs, src) THEN st
        ELSE LET r == copyDirRecursive(st.fs, src, dest, "skip", ord)
             IN  Result(r.fs, st.copied \o r.copied, st.skipped \o r.skipped, r.err)

\* the body of the loop over contentDirs for one category
installCategory(st, name, opts, ord) ==
    LET src == join(PACKAGE_ROOT, name)
        dest == join(githubDirOf(opts), name)
    IN  IF ~(opts.all \/ categoryFlag(opts, name)) THEN st
        ELSE IF ~existsSync(st.fs, src) THEN st
        ELSE IF SelectSeq(readdirSync(st.fs, src, ord), LAMBDA n : n # ".gitkeep") = <<>>
             THEN st
        ELSE LET r == copyDirRecursive(st.fs, src, dest, "skip", ord)
             IN  Result(r.fs, st.copied \o r.copied, st.skipped \o r.skipped, r.err)

\* installStandalone, had it appended to an existing document as merge does
installStandaloneMerges(st, opts) ==
    LET instructionsSrc == join(join(PACKAGE_ROOT, ".github"), "copilot-instructions.md")
        instructionsDest == join(githubDirOf(opts), "copilot-instructions.md")
    IN  IF ~opts.all THEN st
        ELSE IF ~existsSync(st.fs, instructionsSrc) THEN st
        ELSE IF ~existsSync(st.fs, instructionsDest) THEN
            LET c == copyFileSync(st.fs, instructionsSrc, instructionsDest)
            IN  Result(c.fs, Append(st.copied, instructionsDest), st.skipped, c.err)
        ELSE mergeMarkdown(st, instructionsSrc, instructionsDest)

\* installStandalone without the if (options.all) around it
installStandaloneUngated(st, opts) ==
    LET instructionsSrc == join(join(PACKAGE_ROOT, ".github"), "copilot-instructions.md")
        instructionsDest == join(githubDirOf(opts), "copilot-instructions.md")
    IN  IF ~existsSync(st.fs, instructionsSrc) THEN st
        ELSE IF ~existsSync(st.fs, instructionsDest) THEN
            LET c == copyFileSync(st.fs, instructionsSrc, instructionsDest)
            IN  Result(c.fs, Append(st.copied, instructionsDest), st.skipped, c.err)
        ELSE [st EXCEPT !.skipped = Append(@, instructionsDest)]

\* installStandalone without the existsSync(instructionsDest) test
installStandaloneOverwrites(st, opts) ==
    LET instructionsSrc == join(join(PACKAGE_ROOT, ".github"), "copilot-instructions.md")
        instructionsDest == join(githubDirOf(opts), "copilot-instructions.md")
    IN  IF ~opts.all THEN st
        ELSE IF ~existsSync(st.fs, instructionsSrc) THEN st
        ELSE LET c == copyFileSync(st.fs, instructionsSrc, instructionsDest)
             IN  Result(c.fs, Append(st.copied, instructionsDest), st.skipped, c.err)

\* the copilot-instructions.md step of install
installStandalone(st, opts) ==
    LET instructionsSrc == join(join(PACKAGE_ROOT, ".github"), "copilot-instructions.md")
        instructionsDest == join(githubDirOf(opts), "copilot-instructions.md")
    IN  IF ~opts.all THEN st
        ELSE IF ~existsSync(st.fs, instructionsSrc) THEN st
        ELSE IF ~existsSync(st.fs, instructionsDest) THEN
            LET c == copyFileSync(st.fs, instructionsSrc, instructionsDest)
            IN  Result(c.fs, Append(st.copied, instructionsDest), st.skipped, c.err)
        ELSE [st EXCEPT !.skipped = Append(@, instructionsDest)]

----------------------------------------------------------------------------
(* The main program *)

agentsExist(f, opts) == existsSync(f, join(githubDirOf(opts), "agents"))
skillsExist(f, opts) == existsSync(f, join(githubDirOf(opts), "skills"))

\* guardAllows, had it also looked for the prompts directory
guardAllowsReadsPrompts(f, opts) ==
    /\ ~agentsExist(f, opts)
    /\ ~skillsExist(f, opts)
    /\ ~existsSync(f, join(githubDirOf(opts), "prompts"))

\* guardAllows with || in place of &&
guardAllowsEither(f, opts) == ~agentsExist(f, opts) \/ ~skillsExist(f, opts)

\* the auto-mode test: !agentsExist && !skillsExist
guardAllows(f, opts) == ~agentsExist(f, opts) /\ ~skillsExist(f, opts)

\* runsInstall, had the marker test not been inside if (options.auto)
runsInstallGuardedAlways(f, opts) == guardAllows(f, opts)

\* runsInstall without the auto-mode test
runsInstallUnguarded(f, opts) == TRUE

\* whether main calls install(options)
runsInstall(f, opts) == IF opts.auto THEN guardAllows(f, opts) ELSE TRUE

\* the shipped content: one shape per category, and the standalone document
CatShape(name, shape) ==
    LET d == join(PACKAGE_ROOT, name)
    IN  IF shape = "absent" THEN {}
        ELSE IF shape = "empty" THEN {<<d, Dir>>}
        ELSE IF shape = "gitkeep" THEN {<<join(d, ".gitkeep"), File(<<>>)>>}
        ELSE IF shape = "files" THEN {<<join(d, "a.md"), File(<<"x">>)>>}
        ELSE {<<join(join(d, "sub"), "a.md"), File(<<"x", "x">>)>>,
              <<join(d, "b.txt"), File(<<"x">>)>>}

Layouts ==
    {<<"files", "nested", "gitkeep", "empty", TRUE>>,
     <<"gitkeep", "absent", "files", "nested", TRUE>>,
     <<"nested", "files", "files", "absent", FALSE>>}

PackageTree(l) ==
    MakeTree({<<PACKAGE_ROOT, Dir>>}
             \cup UNION {CatShape(contentDirs[i], l[i]) : i \in 1..4}
             \cup IF l[5]
                  THEN {<<join(join(PACKAGE_ROOT, ".github"), "copilot-instructions.md"),
                          File(<<"x">>)>>}
                  ELSE {})

\* what the consumer's project may hold under .github before the first run
PreExisting ==
    LET g == join(CWD, ".github")
    IN  {<<join(g, "agents"), Dir>>,
         <<join(g, "skills"), Dir>>,
         <<join(g, "prompts"), Dir>>,
         <<join(join(g, "agents"), "a.md"), File(<<"fffd">>)>>,
         <<join(join(join(g, "skills"), "sub"), "a.md"), File(<<"bad">>)>>,
         <<join(join(g, "prompts"), "a.md"), File(<<"fffd">>)>>,
         <<join(g, "copilot-instructions.md"), File(<<"fffd">>)>>,
         <<join(g, "skills"), File(<<"x">>)>>,
         <<join(join(g, "instructions"), "b.txt"), Dir>>}

\* no two entries at one path, none below a file
Consistent(entries) ==
    \A e1, e2 \in entries :
        e1 # e2 => /\ e1[1] # e2[1]
                   /\ ~(e1[2].kind = "file" /\ IsPrefix(e1[1], e2[1]))

ProjectTrees ==
    {MakeTree({<<CWD, Dir>>} \cup es) :
        es \in {s \in SUBSET PreExisting : Cardinality(s) <= MaxPre /\ Consistent(s)}}

\* the argument lists the command is run with
Invocations ==
    {<<>>, <<"--agents">>, <<"-s", "--prompts", "-i">>,
     <<"--auto">>, <<"--auto", "-p">>, <<"--help">>,
     <<"--list", "--all", "-a", "--auto", "--dest", "/other">>}

Terminated == {"idle", "helped", "listed", "suppressed", "done", "crashed"}

Init ==
    /\ \E l \in Layouts, t \in ProjectTrees : fs = PackageTree(l) @@ t
    /\ dirOrder \in DirOrders
    /\ pc = "idle"
    /\ options = NoOptions
    /\ catIndex = 1
    /\ totalCopied = <<>>
    /\ totalSkipped = <<>>
    /\ call = NoCall
    /\ result = NoResult
    /\ fsBefore = fs
    /\ prev = NoPrev
    /\ runs = 0
    /\ argv = <<>>

\* the command is run: const options = parseArgs(args)
Invoke(args) ==
    /\ pc \in Terminated
    /\ runs < MaxRuns
    /\ options' = parseArgs(args)
    /\ pc' = "main"
    /\ fsBefore' = fs
    /\ prev' = [NoPrev EXCEPT !.options = options, !.copied = totalCopied,
                              !.skipped = totalSkipped, !.pc = pc, !.fs = fsBefore]
    /\ catIndex' = 1
    /\ totalCopied' = <<>>
    /\ totalSkipped' = <<>>
    /\ runs' = runs + 1
    /\ argv' = args
    /\ UNCHANGED <<fs, dirOrder, call, result>>

\* if (options.help) { showHelp(); process.exit(0) }
ShowHelp ==
    /\ pc = "main"
    /\ options.help
    /\ pc' = "helped"
    /\ UNCHANGED <<argv, fs, dirOrder, options, catIndex, totalCopied, totalSkipped,
                   call, result, fsBefore, prev, runs>>

\* ListContents without process.exit(0): main goes on into install
ListContentsFallsThrough ==
    /\ pc = "main"
    /\ ~options.help
    /\ options.list
    /\ fs' = mkdirSync(fs, githubDirOf(options)).fs
    /\ pc' = "listed"
    /\ UNCHANGED <<argv, dirOrder, options, catIndex, totalCopied, totalSkipped,
                   call, result, fsBefore, prev, runs>>

\* if (options.list) { listContents(); process.exit(0) }
ListContents ==
    /\ pc = "main"
    /\ ~options.help
    /\ options.list
    /\ pc' = "listed"
    /\ UNCHANGED <<argv, fs, dirOrder, options, catIndex, totalCopied, totalSkipped,
                   call, result, fsBefore, prev, runs>>

\* AutoSkip, had the refusal left the copilot-instructions.md step running
AutoSkipStillCopiesStandalone ==
    /\ pc = "main"
    /\ ~options.help
    /\ ~options.list
    /\ ~runsInstall(fs, options)
    /\ pc' = "suppressed"
    /\ fs' = installStandalone(Result(fs, <<>>, <<>>, "none"), options).fs
    /\ UNCHANGED <<argv, dirOrder, options, catIndex, totalCopied, totalSkipped,
                   call, result, fsBefore, prev, runs>>

\* auto mode with content present: only the two log lines
AutoSkip ==
    /\ pc = "main"
    /\ ~options.help
    /\ ~options.list
    /\ ~runsInstall(fs, options)
    /\ pc' = "suppressed"
    /\ UNCHANGED <<argv, fs, dirOrder, options, catIndex, totalCopied, totalSkipped,
                   call, result, fsBefore, prev, runs>>

\* install(options) up to the loop: mkdirSync(githubDir, { recursive: true })
InstallStart ==
    /\ pc = "main"
    /\ ~options.help
    /\ ~options.list
    /\ runsInstall(fs, options)
    /\ LET m == mkdirSync(fs, githubDirOf(options))
       IN  /\ fs' = m.fs
           /\ pc' = IF m.err = "none" THEN "categories" ELSE "crashed"
    /\ UNCHANGED <<argv, dirOrder, options, catIndex, totalCopied, totalSkipped,
                   call, result, fsBefore, prev, runs>>

\* one iteration of the loop over contentDirs; a thrown error ends the process
InstallCategory ==
    /\ pc = "categories"
    /\ LET r == installCategory(Result(fs, totalCopied, totalSkipped, "none"),
                                contentDirs[catIndex], options, dirOrder)
       IN  /\ fs' = r.fs
           /\ IF r.err = "none"
              THEN /\ totalCopied' = r.copied
                   /\ totalSkipped' = r.skipped
                   /\ catIndex' = catIndex + 1
                   /\ pc' = IF catIndex = Len(contentDirs) THEN "standalone" ELSE "categories"
              ELSE /\ pc' = "crashed"
                   /\ UNCHANGED <<totalCopied, totalSkipped, catIndex>>
    /\ UNCHANGED <<argv, dirOrder, options, call, result, fsBefore, prev, runs>>

\* the copilot-instructions.md step
InstallStandalone ==
    /\ pc = "standalone"
    /\ LET r == installStandalone(Result(fs, totalCopied, totalSkipped, "none"), options)
       IN  /\ fs' = r.fs
           /\ IF r.err = "none"
              THEN /\ totalCopied' = r.copied
                   /\ totalSkipped' = r.skipped
                   /\ pc' = "summary"
              ELSE /\ pc' = "crashed"
                   /\ UNCHANGED <<totalCopied, totalSkipped>>
    /\ UNCHANGED <<argv, dirOrder, options, catIndex, call, result, fsBefore, prev, runs>>

\* the summary is printed and the process ends
Summary ==
    /\ pc = "summary"
    /\ pc' = "done"
    /\ UNCHANGED <<argv, fs, dirOrder, options, catIndex, totalCopied, totalSkipped,
                   call, result, fsBefore, prev, runs>>

Next ==
    \/ \E args \in Invocations : Invoke(args)
    \/ ShowHelp
    \/ ListContents
    \/ AutoSkip
    \/ InstallStart
    \/ InstallCategory
    \/ InstallStandalone
    \/ Summary

Spec == Init /\ [][Next]_vars

----------------------------------------------------------------------------
(* Properties of the command, checked under Spec *)

\* the process has entered install(): it is in it, finished it, or died in it
InstallPcs == {"categories", "standalone", "summary", "done", "crashed"}

\* main has chosen between help, list, the auto-mode refusal and install
Dispatched == pc \notin {"idle", "main"}

InstallRequest == ~options.help /\ ~options.list

\* <dest>/.github/<name> existed when the run started
MarkerBefore(name) == (options.dest \o <<".github", name>>) \in DOMAIN fsBefore

StandaloneDest == options.dest \o <<".github", "copilot-instructions.md">>
StandaloneSrc == <<"pkg", ".github", "copilot-instructions.md">>

\* the category is selected and its shipped directory holds more than .gitkeep
Installed(name) ==
    /\ options.all \/ categoryFlag(options, name)
    /\ \E p \in DOMAIN fsBefore :
          Len(p) = 3 /\ p[1] = "pkg" /\ p[2] = name /\ p[3] # ".gitkeep"

\* the shipped files of a category
ShippedFiles(name) ==
    {p \in DOMAIN fsBefore :
        Len(p) >= 3 /\ p[1] = "pkg" /\ p[2] = name /\ fsBefore[p].kind = "file"}

\* where install puts a shipped file
InstalledAt(p) == options.dest \o <<".github">> \o SubSeq(p, 2, Len(p))

RECURSIVE TraversalFrom(_, _, _, _)
\* the files under dir in f, depth first: the entries of dir from the i-th
\* name of ord on, a subdirectory's files in the place of the subdirectory
TraversalFrom(f, dir, ord, i) ==
    IF i > Len(ord) THEN <<>>
    ELSE LET p == join(dir, ord[i])
             here == IF p \notin DOMAIN f THEN <<>>
                     ELSE IF f[p].kind = "dir" THEN TraversalFrom(f, p, ord, 1)
                     ELSE <<p>>
         IN  here \o TraversalFrom(f, dir, ord, i + 1)

\* the installed paths of a category's shipped files, in traversal order
CategoryOrder(name) ==
    LET t == TraversalFrom(fsBefore, <<"pkg", name>>, dirOrder, 1)
    IN  [i \in 1..Len(t) |-> InstalledAt(t[i])]

\* every path install can report, in the order install reaches it
InstallOrder ==
    CategoryOrder(contentDirs[1]) \o CategoryOrder(contentDirs[2])
        \o CategoryOrder(contentDirs[3]) \o CategoryOrder(contentDirs[4])
        \o <<StandaloneDest>>

\* l lists paths of e, each once, in the order e has them
InOrderOf(l, e) ==
    /\ \A i \in 1..Len(l) : \E k \in 1..Len(e) : e[k] = l[i]
    /\ \A i, j \in 1..Len(l) :
           i < j => \E k, m \in 1..Len(e) : k < m /\ e[k] = l[i] /\ e[m] = l[j]

\* C1: at every point of every invocation, whatever existed when it started
\* still exists with the same content; the standalone document included.
C1_ExistingPreserved ==
    \A p \in DOMAIN fsBefore : p \in DOMAIN fs /\ fs[p] = fsBefore[p]

C1_Witness ==
    /\ pc = "done"
    /\ StandaloneDest \in DOMAIN fsBefore
    /\ StandaloneSrc \in DOMAIN fsBefore
    /\ fsBefore[StandaloneDest] # fsBefore[StandaloneSrc]
    /\ StandaloneDest \in SeqToSet(totalSkipped)
    /\ totalCopied # <<>>

\* C8: in auto mode install runs exactly when neither <dest>/.github/agents
\* nor <dest>/.github/skills existed; with either present it is not run.
C8_AutoGuardGating ==
    (options.auto /\ InstallRequest /\ Dispatched) =>
        /\ (pc \in InstallPcs) = (~MarkerBefore("agents") /\ ~MarkerBefore("skills"))
        /\ (pc = "suppressed") = (MarkerBefore("agents") \/ MarkerBefore("skills"))

C8_Witness ==
    /\ options.auto
    /\ pc = "suppressed"
    /\ MarkerBefore("agents")
    /\ ~MarkerBefore("skills")

\* the states a destination can be in before a run, the shipped content beside
StartStates == {PackageTree(l) @@ t : l \in Layouts, t \in ProjectTrees}

MarkerIn(f, name) == (options.dest \o <<".github", name>>) \in DOMAIN f

\* C11: the decision an auto-mode run took is the decision it takes from every
\* other state that agrees with its starting state on whether
\* <dest>/.github/agents and <dest>/.github/skills exist, whatever else
\* (prompts, instructions, copilot-instructions.md, contents) differs.
C11_GuardReadsOnlyMarkers ==
    (options.auto /\ InstallRequest /\ Dispatched) =>
        \A f2 \in StartStates :
            (/\ MarkerIn(f2, "agents") = MarkerBefore("agents")
             /\ MarkerIn(f2, "skills") = MarkerBefore("skills")) =>
                (runsInstall(f2, options) = (pc \in InstallPcs))

C11_Witness ==
    /\ options.auto
    /\ pc = "done"
    /\ MarkerIn(fsBefore, "prompts")
    /\ StandaloneDest \notin DOMAIN fsBefore
    /\ \E f2 \in StartStates :
          /\ ~MarkerIn(f2, "agents") /\ ~MarkerIn(f2, "skills")
          /\ ~MarkerIn(f2, "prompts")
          /\ StandaloneDest \in DOMAIN f2

\* C9: when the guard refuses, the invocation changes nothing in the file
\* system and reports nothing.
C9_SuppressedTouchesNothing ==
    pc = "suppressed" => fs = fsBefore /\ totalCopied = <<>> /\ totalSkipped = <<>>

C9_Witness ==
    /\ pc = "suppressed"
    /\ options.prompts
    /\ Installed("prompts")
    /\ \E p \in ShippedFiles("prompts") : InstalledAt(p) \notin DOMAIN fs
    /\ StandaloneSrc \in DOMAIN fs
    /\ StandaloneDest \notin DOMAIN fs

\* C10: a request without --auto always enters install, whatever markers
\* exist; a shipped file whose destination already existed is skipped and
\* left as it was.
C10_ExplicitAlwaysRuns ==
    (~options.auto /\ InstallRequest /\ Dispatched) =>
        /\ pc \in InstallPcs
        /\ pc = "done" =>
              \A i \in 1..Len(contentDirs) :
                  Installed(contentDirs[i]) =>
                      \A p \in ShippedFiles(contentDirs[i]) :
                          InstalledAt(p) \in DOMAIN fsBefore =>
                              /\ InstalledAt(p) \in SeqToSet(totalSkipped)
                              /\ fs[InstalledAt(p)] = fsBefore[InstalledAt(p)]

C10_Witness ==
    /\ ~options.auto
    /\ pc = "done"
    /\ MarkerBefore("agents") \/ MarkerBefore("skills")
    /\ totalCopied # <<>>
    /\ totalSkipped # <<>>

HelpArgs == {"--help", "-h"}
ListArgs == {"--list", "-l"}
DestArgs == {"--dest", "-d"}

\* the category is requested: --all (or the default), or its own flag
Requested(name) == options.all \/ categoryFlag(options, name)

\* the shipped directory of the category is absent, empty or holds .gitkeep only
PlaceholderOnly(name) ==
    \A p \in DOMAIN fsBefore :
        (Len(p) = 3 /\ p[1] = "pkg" /\ p[2] = name) => p[3] = ".gitkeep"

CategoryDest(name) == options.dest \o <<".github", name>>

Reported == SeqToSet(totalCopied) \cup SeqToSet(totalSkipped)

\* C15: a requested category whose shipped directory is absent, empty or
\* holds only .gitkeep is passed over: <dest>/.github/<category> is not
\* created and no path below it is reported as copied or skipped.
C15_PlaceholderCategorySkipped ==
    pc \in InstallPcs =>
        \A i \in 1..Len(contentDirs) :
            LET name == contentDirs[i]
            IN  (Requested(name) /\ PlaceholderOnly(name)) =>
                    /\ CategoryDest(name) \notin DOMAIN fsBefore =>
                           CategoryDest(name) \notin DOMAIN fs
                    /\ \A p \in Reported : ~IsPrefix(CategoryDest(name), p)

C15_Witness ==
    /\ pc = "done"
    /\ totalCopied # <<>>
    /\ \E i \in 1..Len(contentDirs) :
          /\ Requested(contentDirs[i])
          /\ <<"pkg", contentDirs[i], ".gitkeep">> \in DOMAIN fsBefore
          /\ CategoryDest(contentDirs[i]) \notin DOMAIN fs
    /\ \E i \in 1..Len(contentDirs) :
          /\ Requested(contentDirs[i])
          /\ <<"pkg", contentDirs[i]>> \notin DOMAIN fsBefore
          /\ CategoryDest(contentDirs[i]) \notin DOMAIN fs

\* the copilot-instructions.md step is behind the process
StandaloneStepDone == pc \in {"summary", "done"}

\* C16: when the copilot-instructions.md step runs, an existing destination
\* document is recorded in skipped and keeps its content; an absent one is
\* created with the bytes of the shipped document and recorded in copied;
\* without a shipped document the path is in neither list.
C16_StandaloneCopyIfAbsent ==
    (StandaloneStepDone /\ options.all) =>
        /\ (StandaloneSrc \in DOMAIN fsBefore /\ StandaloneDest \in DOMAIN fsBefore) =>
              /\ fs[StandaloneDest] = fsBefore[StandaloneDest]
              /\ StandaloneDest \in SeqToSet(totalSkipped)
              /\ StandaloneDest \notin SeqToSet(totalCopied)
        /\ (StandaloneSrc \in DOMAIN fsBefore /\ StandaloneDest \notin DOMAIN fsBefore) =>
              /\ fs[StandaloneDest] = fsBefore[StandaloneSrc]
              /\ StandaloneDest \in SeqToSet(totalCopied)
              /\ StandaloneDest \notin SeqToSet(totalSkipped)
        /\ StandaloneSrc \notin DOMAIN fsBefore => StandaloneDest \notin Reported

C16_Witness ==
    /\ pc = "done" /\ options.all
    /\ runs = 2 /\ prev.pc = "done"
    /\ StandaloneDest \in SeqToSet(prev.copied)
    /\ StandaloneDest \in SeqToSet(totalSkipped)
    /\ fs[StandaloneDest] = fs[StandaloneSrc]

\* C17 as stated: every install request performs the copilot-instructions.md
\* step, whichever categories it selects.
C17_StandaloneNeverGated ==
    (StandaloneStepDone /\ StandaloneSrc \in DOMAIN fsBefore) =>
        StandaloneDest \in Reported

\* C17, amended: the step is performed exactly when options.all holds (--all,
\* or no category selector at all); a request that names categories without
\* --all neither reports nor creates the document.
C17_StandaloneGatedByAll ==
    (StandaloneStepDone /\ StandaloneSrc \in DOMAIN fsBefore) =>
        /\ (StandaloneDest \in Reported) = options.all
        /\ ~options.all =>
              /\ (StandaloneDest \in DOMAIN fs) = (StandaloneDest \in DOMAIN fsBefore)
              /\ StandaloneDest \in DOMAIN fs => fs[StandaloneDest] = fsBefore[StandaloneDest]

C17_Witness ==
    /\ pc = "done"
    /\ options.agents /\ ~options.all
    /\ totalCopied # <<>>
    /\ StandaloneSrc \in DOMAIN fsBefore
    /\ StandaloneDest \notin DOMAIN fs

----------------------------------------------------------------------------
(* The command run twice or more with install requests only *)

RepeatInvocations ==
    {<<>>, <<"--auto">>, <<"--auto", "-p">>, <<"-s", "--prompts", "-i">>,
     <<"--auto", "-d", "/pkg">>}

NextRepeat ==
    \/ \E args \in RepeatInvocations : Invoke(args)
    \/ AutoSkip
    \/ InstallStart
    \/ InstallCategory
    \/ InstallStandalone
    \/ Summary

SpecRepeat == Init /\ [][NextRepeat]_vars

\* the request selects the category: --all (or no selector) or its own flag
Selected(name) == options.all \/ options[name]

\* nothing at or below <dest>/.github/<name> differs from the start of the run
Untouched(name) ==
    \A p \in DOMAIN fs \cup DOMAIN fsBefore :
        IsPrefix(CategoryDest(name), p) =>
            p \in DOMAIN fs /\ p \in DOMAIN fsBefore /\ fs[p] = fsBefore[p]

\* every shipped file of the category is installed and reported
Completed(name) ==
    \A q \in ShippedFiles(name) :
        InstalledAt(q) \in DOMAIN fs /\ InstalledAt(q) \in Reported

\* C28: at every point of an install, a category the request does not select
\* has nothing created or changed under <dest>/.github/<category>; every
\* reported path other than the standalone document is the path under
\* <dest>/.github/<category> of a file shipped in <package>/<category> for a
\* selected category; and the categories are taken in the order agents,
\* skills, prompts, instructions, one at a time: while the loop stands at a
\* category, every later one is untouched and every earlier selected one
\* that ships content is complete.
C28_CategoryFrame ==
    pc \in InstallPcs =>
        /\ \A i \in 1..Len(contentDirs) :
               LET c == contentDirs[i]
               IN  /\ ~Selected(c) => Untouched(c)
                   /\ (pc \in {"categories", "crashed"} /\ i > catIndex) => Untouched(c)
                   /\ (i < catIndex /\ Selected(c) /\ ~PlaceholderOnly(c)) => Completed(c)
        /\ \A p \in Reported \ {StandaloneDest} :
               \E i \in 1..Len(contentDirs) :
                   /\ Selected(contentDirs[i])
                   /\ IsPrefix(CategoryDest(contentDirs[i]), p)
                   /\ \E q \in ShippedFiles(contentDirs[i]) : p = InstalledAt(q)

C28_Witness ==
    /\ pc = "categories" /\ catIndex = 3
    /\ ~options.all
    /\ ~Selected("agents") /\ ShippedFiles("agents") # {}
    /\ CategoryDest("agents") \notin DOMAIN fs
    /\ Selected("skills") /\ ShippedFiles("skills") # {}
    /\ \E q \in ShippedFiles("skills") :
          InstalledAt(q) \notin DOMAIN fsBefore /\ InstalledAt(q) \in SeqToSet(totalCopied)
    /\ Selected("prompts") /\ ShippedFiles("prompts") # {}
    /\ \A q \in ShippedFiles("prompts") : InstalledAt(q) \notin DOMAIN fs

\* the run is an auto-mode install request made again after the same request
\* ran to the end: the markers were absent when that first run started
SecondAuto ==
    /\ runs = 2 /\ Dispatched
    /\ options.auto /\ InstallRequest
    /\ prev.options = options /\ prev.pc = "done"

\* C27 as stated: the second run changes nothing, and it is suppressed
\* whenever the shipped agents or skills directory holds more than .gitkeep.
C27_SecondAutoSuppressed ==
    SecondAuto =>
        /\ fs = fsBefore
        /\ (~PlaceholderOnly("agents") \/ ~PlaceholderOnly("skills")) => pc = "suppressed"

\* C27: an auto-mode request repeated after it ran to the end changes nothing;
\* it is suppressed whenever the request selects agents or skills and the
\* shipped directory of that category holds more than .gitkeep, since the
\* first run then created the marker directory.
C27_SecondAutoIdempotent ==
    SecondAuto =>
        /\ fs = fsBefore
        /\ (\E c \in {"agents", "skills"} : Selected(c) /\ ~PlaceholderOnly(c))
               => pc = "suppressed"

C27_Witness ==
    /\ SecondAuto /\ pc = "suppressed"
    /\ prev.copied # <<>>
    /\ ~PlaceholderOnly("agents")
    /\ CategoryDest("agents") \in DOMAIN fs

\* C29: at every point of an install, the total copied list and the total
\* skipped list each hold their paths in the order install reaches them: the
\* categories in the order agents, skills, prompts, instructions, within a
\* category the files depth first in directory order with a subdirectory's
\* files in the place of the subdirectory, and the standalone document last.
C29_ResultOrder ==
    pc \in InstallPcs =>
        /\ InOrderOf(totalCopied, InstallOrder)
        /\ InOrderOf(totalSkipped, InstallOrder)

C29_Witness ==
    /\ pc = "done"
    /\ Len(totalCopied) >= 4
    /\ totalCopied[Len(totalCopied)] = StandaloneDest
    /\ \E i \in 1..(Len(totalCopied) - 1) :
          /\ Len(totalCopied[i]) = Len(options.dest) + 4
          /\ Len(totalCopied[i + 1]) = Len(options.dest) + 3
          /\ totalCopied[i][Len(options.dest) + 2] = totalCopied[i + 1][Len(options.dest) + 2]
    /\ \E i, j \in 1..Len(totalCopied) :
          /\ totalCopied[i][Len(options.dest) + 2] = "agents"
          /\ totalCopied[j][Len(options.dest) + 2] = "skills"

----------------------------------------------------------------------------
(* Direct calls of copyDirRecursive(src, dest, { onConflict }) *)

SyncSrc == <<"S">>
SyncMissing == <<"M">>
SyncDest == <<"D">>
SyncFresh == <<"F", "deep">>

\* the (src, dest) pairs a call is made with
SyncPairs == {<<SyncSrc, SyncDest>>, <<SyncSrc, SyncFresh>>, <<SyncMissing, SyncFresh>>}

\* 'skip' (the default), 'merge', and a value that is neither
ConflictModes == {"skip", "merge", "overwrite"}

SrcBytes == SeqsUpTo(Alphabet, 1)
DstBytes == SeqsUpTo(Alphabet, MaxLen)

SyncSrcTrees ==
    {MakeTree({<<SyncSrc, Dir>>} \cup a \cup b) :
        a \in {{}} \cup {{<<join(SyncSrc, "a.md"), File(u)>>} : u \in SrcBytes},
        b \in {{},
               {<<join(SyncSrc, "b.txt"), File(<<"x">>)>>},
               {<<join(SyncSrc, "sub"), Dir>>},
               {<<join(SyncSrc, "b.txt"), File(<<"x">>)>>,
                <<join(join(SyncSrc, "sub"), "a.md"), File(<<"x">>)>>}}}

SyncDestTrees ==
    {MakeTree({<<SyncDest, Dir>>, <<join(SyncDest, "a.md"), File(e)>>}) : e \in DstBytes}
    \cup {MakeTree({}),
          MakeTree({<<SyncDest, Dir>>}),
          MakeTree({<<join(SyncDest, "a.md"), Dir>>}),
          MakeTree({<<join(SyncDest, "a.md"), File(<<"fffd">>)>>}),
          MakeTree({<<join(SyncDest, "b.txt"), File(<<"fffd">>)>>,
                    <<join(join(SyncDest, "sub"), "a.md"), File(<<"bad">>)>>}),
          MakeTree({<<join(SyncDest, "sub"), File(<<"x">>)>>}),
          MakeTree({<<join(SyncDest, "b.txt"), Dir>>,
                    <<join(SyncDest, "a.md"), File(<<"x">>)>>})}

InitSync ==
    /\ \E s \in SyncSrcTrees, d \in SyncDestTrees : fs = s @@ d
    /\ dirOrder \in DirOrders
    /\ pc = "idle"
    /\ options = NoOptions
    /\ catIndex = 1
    /\ totalCopied = <<>>
    /\ totalSkipped = <<>>
    /\ call = NoCall
    /\ result = NoResult
    /\ fsBefore = fs
    /\ prev = NoPrev
    /\ runs = 0
    /\ argv = <<>>

\* one call; a thrown error leaves no return value
CallCopyDirRecursive(src, dest, onConflict) ==
    /\ runs < MaxRuns
    /\ LET r == copyDirRecursive(fs, src, dest, onConflict, dirOrder)
       IN  /\ fs' = r.fs
           /\ result' = IF r.err = "none"
                        THEN [copied |-> r.copied, skipped |-> r.skipped, err |-> "none"]
                        ELSE [copied |-> <<>>, skipped |-> <<>>, err |-> r.err]
    /\ call' = [src |-> src, dest |-> dest, onConflict |-> onConflict]
    /\ fsBefore' = fs
    /\ prev' = [NoPrev EXCEPT !.call = call, !.copied = result.copied,
                              !.skipped = result.skipped, !.err = result.err]
    /\ runs' = runs + 1
    /\ UNCHANGED <<argv, dirOrder, pc, options, catIndex, totalCopied, totalSkipped>>

NextSync ==
    \E pair \in SyncPairs, onConflict \in ConflictModes :
        CallCopyDirRecursive(pair[1], pair[2], onConflict)

SpecSync == InitSync /\ [][NextSync]_vars

----------------------------------------------------------------------------
(* Properties of copyDirRecursive, checked under SpecSync *)

Last(p) == p[Len(p)]

\* the files of the source tree the last call walked, as the tree was then
WalkedFiles ==
    {q \in DOMAIN fsBefore :
        /\ Len(q) > Len(call.src)
        /\ SubSeq(q, 1, Len(call.src)) = call.src
        /\ fsBefore[q].kind = "file"}

\* the destination path of a walked source path
DestOf(q) == call.dest \o SubSeq(q, Len(call.src) + 1, Len(q))

\* u occurs in e as a contiguous run of characters
Occurs(u, e) == \E i \in 1..(Len(e) + 1) : \E j \in (i - 1)..Len(e) : SubSeq(e, i, j) = u

\* the text of the file at p in f, read as UTF-8
TextAt(f, p) == decodeUtf8(f[p].bytes)

WasFile(p) == p \in DOMAIN fsBefore /\ fsBefore[p].kind = "file"

Returned == call # NoCall /\ result.err = "none"

Repeated == runs >= 2 /\ call = prev.call /\ prev.err = "none"

\* C2: under skip, a second call with the same source and destination after a
\* first call that returned copies nothing, skips every path the first call
\* copied, and leaves the file system as the first call left it.
C2_IdempotentSkip ==
    (Repeated /\ call.onConflict = "skip") =>
        /\ result.err = "none"
        /\ result.copied = <<>>
        /\ SeqToSet(prev.copied) \subseteq SeqToSet(result.skipped)
        /\ fs = fsBefore

C2_Witness ==
    /\ Repeated /\ call.onConflict = "skip"
    /\ prev.copied # <<>>
    /\ prev.skipped # <<>>
    /\ Len(result.skipped) = Len(prev.copied) + Len(prev.skipped)

\* C3: under skip, every path recorded in skipped existed before the call and
\* holds the same bytes after it, markdown or not.
C3_SkipKeepsBytes ==
    (Returned /\ call.onConflict = "skip") =>
        \A p \in SeqToSet(result.skipped) :
            p \in DOMAIN fsBefore /\ p \in DOMAIN fs /\ fs[p] = fsBefore[p]

C3_Witness ==
    /\ Returned /\ call.onConflict = "skip"
    /\ \E q \in WalkedFiles :
          /\ ~endsWithMd(Last(q))
          /\ WasFile(DestOf(q))
          /\ fsBefore[DestOf(q)].bytes # fsBefore[q].bytes
          /\ DestOf(q) \in SeqToSet(result.skipped)
    /\ \E q \in WalkedFiles :
          /\ endsWithMd(Last(q))
          /\ WasFile(DestOf(q))
          /\ fsBefore[DestOf(q)].bytes # fsBefore[q].bytes
          /\ DestOf(q) \in SeqToSet(result.skipped)

\* C4: in every mode, no entry that existed before the call is gone after it,
\* and every file that existed holds its old bytes or its old bytes followed
\* by more.
C4_AdditiveOnly ==
    \A p \in DOMAIN fsBefore :
        /\ p \in DOMAIN fs
        /\ \/ fs[p] = fsBefore[p]
           \/ /\ fsBefore[p].kind = "file"
              /\ fs[p].kind = "file"
              /\ IsPrefix(fsBefore[p].bytes, fs[p].bytes)

\* C5: in merge mode an existing destination of a file that is not markdown
\* is recorded in skipped and left as it was.
C5_MergeSkipsNonMarkdown ==
    (Returned /\ call.onConflict = "merge") =>
        \A q \in WalkedFiles :
            (~endsWithMd(Last(q)) /\ DestOf(q) \in DOMAIN fsBefore) =>
                /\ DestOf(q) \in SeqToSet(result.skipped)
                /\ fs[DestOf(q)] = fsBefore[DestOf(q)]

\* C6: in merge mode, an existing markdown destination with text E and a
\* source with text U that does not occur in E ends as E, two newlines, U,
\* and its path is in copied and not in skipped.
C6_MergeAppends ==
    (Returned /\ call.onConflict = "merge") =>
        \A q \in WalkedFiles :
            (/\ endsWithMd(Last(q))
             /\ WasFile(DestOf(q))
             /\ ~Occurs(TextAt(fsBefore, q), TextAt(fsBefore, DestOf(q)))) =>
                /\ fs[DestOf(q)] =
                     File(TextAt(fsBefore, DestOf(q)) \o <<"nl", "nl">> \o TextAt(fsBefore, q))
                /\ DestOf(q) \in SeqToSet(result.copied)
                /\ DestOf(q) \notin SeqToSet(result.skipped)

C6_Witness ==
    /\ Returned /\ call.onConflict = "merge"
    /\ \E q \in WalkedFiles :
          /\ endsWithMd(Last(q))
          /\ WasFile(DestOf(q))
          /\ fsBefore[DestOf(q)].bytes # <<>>
          /\ fsBefore[q].bytes # <<>>
          /\ ~Occurs(TextAt(fsBefore, q), TextAt(fsBefore, DestOf(q)))
          /\ Len(fs[DestOf(q)].bytes) = Len(fsBefore[DestOf(q)].bytes) + 2 + Len(fsBefore[q].bytes)

\* C7: in merge mode a markdown destination whose text already holds the
\* source text is left unchanged and recorded in skipped; so a repeated merge
\* call changes no markdown destination: the text is appended at most once.
C7_MergeNoDuplication ==
    /\ (Returned /\ call.onConflict = "merge") =>
          \A q \in WalkedFiles :
              (/\ endsWithMd(Last(q))
               /\ WasFile(DestOf(q))
               /\ Occurs(TextAt(fsBefore, q), TextAt(fsBefore, DestOf(q)))) =>
                  /\ fs[DestOf(q)] = fsBefore[DestOf(q)]
                  /\ DestOf(q) \in SeqToSet(result.skipped)
    /\ (Repeated /\ call.onConflict = "merge") =>
          /\ result.err = "none"
          /\ \A q \in WalkedFiles :
                endsWithMd(Last(q)) =>
                    /\ DestOf(q) \in DOMAIN fsBefore
                    /\ fs[DestOf(q)] = fsBefore[DestOf(q)]
                    /\ DestOf(q) \in SeqToSet(result.skipped)

C7_Witness ==
    /\ Repeated /\ call.onConflict = "merge"
    /\ \E q \in WalkedFiles :
          /\ endsWithMd(Last(q))
          /\ DestOf(q) \in SeqToSet(prev.copied)
          /\ DestOf(q) \in SeqToSet(result.skipped)
          /\ Len(fs[DestOf(q)].bytes) > Len(fsBefore[q].bytes) + 2

\* the source root of the last call existed when the call was made
SrcExisted == call # NoCall /\ call.src \in DOMAIN fsBefore

\* the directories of the source tree the last call walked, the root included
WalkedDirs ==
    {q \in DOMAIN fsBefore :
        /\ Len(q) >= Len(call.src)
        /\ SubSeq(q, 1, Len(call.src)) = call.src
        /\ fsBefore[q].kind = "dir"}

IsDirIn(f, p) == p \in DOMAIN f /\ f[p].kind = "dir"

\* C13: after a call whose source root exists, the destination root and all
\* its ancestors are directories, whether or not the source holds any file;
\* when the call returns, every directory of the source, empty ones included,
\* has its directory at the destination.
C13_DestRootCreated ==
    SrcExisted =>
        /\ \A k \in 1..Len(call.dest) : IsDirIn(fs, SubSeq(call.dest, 1, k))
        /\ Returned => \A q \in WalkedDirs : IsDirIn(fs, DestOf(q))

C13_Witness ==
    /\ SrcExisted /\ Returned
    /\ call.dest = SyncFresh
    /\ \A k \in 1..Len(SyncFresh) : SubSeq(SyncFresh, 1, k) \notin DOMAIN fsBefore
    /\ WalkedFiles = {}
    /\ \E q \in WalkedDirs : q # call.src /\ DestOf(q) \notin DOMAIN fsBefore
    /\ result.copied = <<>> /\ result.skipped = <<>>

\* the number of times p occurs in the list s
Count(s, p) == Cardinality({i \in 1..Len(s) : s[i] = p})

\* C21: when a call of copyDirRecursive returns, every file of the source
\* tree has its destination path exactly once in copied and skipped taken
\* together, and every listed path is the destination path of a source file
\* (the destination root joined with the file's path relative to the source
\* root), so that no path is listed twice within or across the two lists.
C21_ResultPartition ==
    (Returned /\ SrcExisted) =>
        /\ \A q \in WalkedFiles :
               Count(result.copied, DestOf(q)) + Count(result.skipped, DestOf(q)) = 1
        /\ \A p \in SeqToSet(result.copied) \cup SeqToSet(result.skipped) :
               \E q \in WalkedFiles : p = DestOf(q)
        /\ Len(result.copied) + Len(result.skipped) = Cardinality(WalkedFiles)

C21_Witness ==
    /\ Returned /\ SrcExisted
    /\ result.copied # <<>> /\ result.skipped # <<>>
    /\ Cardinality(WalkedFiles) >= 3
    /\ \E q \in WalkedFiles :
          Len(q) > Len(call.src) + 1 /\ DestOf(q) \in SeqToSet(result.copied)

\* C22: when a call returns in skip or merge mode, every source file whose
\* destination path did not exist is a file at that path holding exactly the
\* source bytes, and its path is in copied and not in skipped; when the
\* destination root itself did not exist, copied holds the destination path
\* of every source file and skipped is empty.
C22_CopyNewMirrors ==
    (Returned /\ SrcExisted /\ call.onConflict \in {"skip", "merge"}) =>
        /\ \A q \in WalkedFiles :
               DestOf(q) \notin DOMAIN fsBefore =>
                   /\ DestOf(q) \in DOMAIN fs
                   /\ fs[DestOf(q)] = File(fsBefore[q].bytes)
                   /\ DestOf(q) \in SeqToSet(result.copied)
                   /\ DestOf(q) \notin SeqToSet(result.skipped)
        /\ call.dest \notin DOMAIN fsBefore =>
               /\ SeqToSet(result.copied) = {DestOf(q) : q \in WalkedFiles}
               /\ result.skipped = <<>>

C22_Witness ==
    /\ Returned /\ SrcExisted /\ call.onConflict = "merge"
    /\ call.dest \notin DOMAIN fsBefore
    /\ \E q \in WalkedFiles :
          /\ endsWithMd(Last(q))
          /\ fsBefore[q].bytes # decodeUtf8(fsBefore[q].bytes)
          /\ fs[DestOf(q)].bytes = fsBefore[q].bytes
    /\ Cardinality(WalkedFiles) >= 2
    /\ Len(result.copied) = Cardinality(WalkedFiles)

\* C23: a call whose source root exists never ends in an error, whatever
\* already is at the destination paths of its entries.
C23_ExistingDestNeverFatal ==
    SrcExisted => result.err = "none"

----------------------------------------------------------------------------
(* Direct calls of copyDirRecursive with a source root that does not exist *)

\* the destinations of such calls: an existing directory or none, a path
\* under a fresh parent, and a path that may hold a file
AbsentDests == {SyncDest, SyncFresh, join(SyncDest, "a.md")}

NextAbsent ==
    \E dest \in AbsentDests, onConflict \in ConflictModes :
        CallCopyDirRecursive(SyncMissing, dest, onConflict)

SpecAbsent == InitSync /\ [][NextAbsent]_vars

SrcMissing == call # NoCall /\ call.src \notin DOMAIN fsBefore

\* C12: a call whose source root does not exist returns, with copied and
\* skipped both empty, in every mode and whatever the destination holds.
C12_AbsentSourceEmptyResult ==
    SrcMissing =>
        result.err = "none" /\ result.copied = <<>> /\ result.skipped = <<>>

C12_Witness ==
    /\ SrcMissing
    /\ call.onConflict = "merge"
    /\ WasFile(call.dest)
    /\ result = NoResult
    /\ runs = 2 /\ prev.call.dest = SyncFresh /\ prev.err = "none"

\* C14 as stated: after a call whose source root does not exist the
\* destination root exists.
C14_AbsentSourceCreatesDest ==
    SrcMissing => call.dest \in DOMAIN fs

\* C14, amended: a call whose source root does not exist leaves the file
\* system as it was; a destination root that did not exist is not created.
C14_AbsentSourceCreatesNothing ==
    SrcMissing =>
        /\ fs = fsBefore
        /\ call.dest \notin DOMAIN fsBefore => call.dest \notin DOMAIN fs

C14_Witness ==
    /\ SrcMissing
    /\ call.dest = SyncFresh
    /\ \A k \in 1..Len(SyncFresh) : SubSeq(SyncFresh, 1, k) \notin DOMAIN fs
    /\ result.err = "none"

----------------------------------------------------------------------------
(* parseArgs over argument lists *)

\* the words an argument list is made of: every option in both spellings, a
\* path, a word that is no option, and the empty string
ArgTokens ==
    {"--agents", "-a", "--skills", "-s", "--prompts", "-p", "--instructions", "-i",
     "--all", "--auto", "--help", "-h", "--list", "-l", "--dest", "-d",
     "/other", "bogus", ""}

ArgLists == UNION {[1..n -> ArgTokens] : n \in 0..MaxArgs}

InitArgs ==
    /\ fs = MakeTree({<<PACKAGE_ROOT, Dir>>, <<CWD, Dir>>})
    /\ dirOrder = NameOrder
    /\ pc = "idle"
    /\ options = NoOptions
    /\ catIndex = 1
    /\ totalCopied = <<>>
    /\ totalSkipped = <<>>
    /\ call = NoCall
    /\ result = NoResult
    /\ fsBefore = fs
    /\ prev = NoPrev
    /\ runs = 0
    /\ argv = <<>>

NextArgs == pc = "idle" /\ \E args \in ArgLists : Invoke(args)

SpecArgs == InitArgs /\ [][NextArgs]_vars

SelectorArgs == {"--agents", "-a", "--skills", "-s", "--prompts", "-p", "--instructions", "-i"}

\* C18: an argument list without a category selector, --all, --help and
\* --list (in either spelling) parses to a request for all four categories;
\* and whatever the list, a request that is neither help nor listing selects
\* at least one category.
C18_SelectorDefaulting ==
    pc = "main" =>
        /\ (SeqToSet(argv) \cap (SelectorArgs \cup {"--all"} \cup HelpArgs \cup ListArgs) = {}) =>
              /\ ~options.help /\ ~options.list
              /\ \A i \in 1..Len(contentDirs) : Requested(contentDirs[i])
        /\ InstallRequest => \E i \in 1..Len(contentDirs) : Requested(contentDirs[i])

C18_Witness ==
    /\ pc = "main"
    /\ Len(argv) = 3
    /\ argv[1] = "bogus" /\ argv[2] \in {"--dest", "-d"} /\ argv[3] = "--auto"
    /\ options = [NoOptions EXCEPT !.all = TRUE, !.dest = <<"proj", "--auto">>]

----------------------------------------------------------------------------
(* The command run with destination roots of its own package, and with an   *)
(* option word where the destination root is expected                       *)

DestInvocations ==
    {<<"-a", "-d", "/pkg/agents">>, <<"--dest", "/pkg">>, <<"--auto", "-d", "/pkg">>,
     <<"--dest", "--list">>, <<"--list", "-s", "--auto", "-d", "/pkg">>,
     <<"-i", "-h", "--all">>, <<"-d", "/other", "-l", "--help">>}

NextDest ==
    \/ \E args \in DestInvocations : Invoke(args)
    \/ ShowHelp
    \/ ListContents
    \/ AutoSkip
    \/ InstallStart
    \/ InstallCategory
    \/ InstallStandalone
    \/ Summary

SpecDest == Init /\ [][NextDest]_vars

RECURSIVE OptionAt(_, _)
\* the word at position i is read as an option, not as the value of a --dest
OptionAt(args, i) ==
    i = 1 \/ ~(args[i - 1] \in DestArgs /\ OptionAt(args, i - 1))

\* one of the words is among the arguments, read as an option
GivenOption(words) == \E i \in 1..Len(argv) : argv[i] \in words /\ OptionAt(argv, i)

\* C19 as stated: a run whose arguments hold --help, -h, --list or -l ends
\* after printing, as help or as listing, and at no point is anything under
\* the destination root (or elsewhere) created, changed or removed; also
\* with category selectors, --all, --auto and --dest beside it.
C19_ListAndHelpReadOnly ==
    (SeqToSet(argv) \cap (HelpArgs \cup ListArgs) # {}) =>
        /\ fs = fsBefore
        /\ Dispatched =>
              pc = (IF SeqToSet(argv) \cap HelpArgs # {} THEN "helped" ELSE "listed")
        /\ totalCopied = <<>> /\ totalSkipped = <<>>

\* C19, amended: the same for a run in whose arguments --help, -h, --list or
\* -l stands as an option, that is anywhere but directly after a --dest or
\* -d that takes it as the destination root.
C19_ListAndHelpOptionsReadOnly ==
    GivenOption(HelpArgs \cup ListArgs) =>
        /\ fs = fsBefore
        /\ Dispatched => pc = (IF GivenOption(HelpArgs) THEN "helped" ELSE "listed")
        /\ totalCopied = <<>> /\ totalSkipped = <<>>

C19_Witness ==
    /\ pc = "listed"
    /\ GivenOption(ListArgs)
    /\ options.skills /\ options.auto /\ options.dest = PACKAGE_ROOT
    /\ Installed("skills")
    /\ <<"pkg", ".github">> \notin DOMAIN fs

C20_InstallTerminatesSuccessfully ==
    InstallRequest => pc # "crashed"

----------------------------------------------------------------------------
(* Direct calls of copyDirRecursive with roots in one tree: the source inside
   the destination, the destination inside the source, and two siblings *)

OverlapRoot == <<"O">>
OverlapSub == join(OverlapRoot, "sub")
OverlapSibling == join(OverlapRoot, "agents")

OverlapPairs == {<<OverlapSub, OverlapRoot>>, <<OverlapSibling, OverlapSub>>}

\* the entries a tree may hold besides the root
OverlapEntries ==
    {<<join(join(join(OverlapSub, "sub"), "agents"), "a.md"), File(<<"x">>)>>,
     <<join(OverlapSub, "agents"), Dir>>,
     <<join(join(join(OverlapSub, "sub"), "agents"), "skills"), Dir>>,
     <<join(OverlapSibling, "a.md"), File(<<"bad">>)>>,
     <<join(join(OverlapSibling, "sub"), "b.txt"), File(<<"x">>)>>,
     <<join(OverlapRoot, "a.md"), File(<<"x">>)>>}

OverlapTrees == {MakeTree({<<OverlapRoot, Dir>>} \cup e) : e \in SUBSET OverlapEntries}

InitOverlap ==
    /\ fs \in OverlapTrees
    /\ dirOrder \in DirOrders
    /\ pc = "idle"
    /\ options = NoOptions
    /\ catIndex = 1
    /\ totalCopied = <<>>
    /\ totalSkipped = <<>>
    /\ call = NoCall
    /\ result = NoResult
    /\ fsBefore = fs
    /\ prev = NoPrev
    /\ runs = 0
    /\ argv = <<>>

\* the destination inside the source is called with the default policy only
NextOverlap ==
    \/ \E pair \in OverlapPairs, onConflict \in ConflictModes :
          CallCopyDirRecursive(pair[1], pair[2], onConflict)
    \/ CallCopyDirRecursive(OverlapRoot, OverlapSub, "skip")

SpecOverlap == InitOverlap /\ [][NextOverlap]_vars

\* the source path whose entry the walk puts at the destination path p
SrcOf(p) == call.src \o SubSeq(p, Len(call.dest) + 1, Len(p))

\* the walk ended, each source file of the tree as it was when the call was
\* made was visited once, and everything the call created at or below the
\* destination root mirrors an entry of that tree: nothing the call created
\* was itself walked as a source entry
WalkedSourceOnce ==
    /\ result.err # "ENAMETOOLONG"
    /\ Returned => Len(result.copied) + Len(result.skipped) = Cardinality(WalkedFiles)
    /\ \A p \in DOMAIN fs \ DOMAIN fsBefore :
           IsPrefix(call.dest, p) => SrcOf(p) \in DOMAIN fsBefore

\* C30 as stated: whenever the destination root is not inside the source root.
C30_WalkTerminatesOutsideSource ==
    (SrcExisted /\ ~IsPrefix(call.src, call.dest)) => WalkedSourceOnce

\* C30: whenever neither root is the other or inside the other, the walk
\* ends after visiting each source file once, nothing it created is walked as
\* a source entry, and the source tree is as it was.
C30_WalkTerminatesDisjoint ==
    (SrcExisted /\ ~IsPrefix(call.src, call.dest) /\ ~IsPrefix(call.dest, call.src)) =>
        /\ WalkedSourceOnce
        /\ \A p \in DOMAIN fs \cup DOMAIN fsBefore :
               IsPrefix(call.src, p) =>
                   p \in DOMAIN fs /\ p \in DOMAIN fsBefore /\ fs[p] = fsBefore[p]

C30_Witness ==
    /\ SrcExisted /\ Returned
    /\ call.src = OverlapSibling /\ call.dest = OverlapSub
    /\ Cardinality(WalkedFiles) = 2
    /\ \E p \in DOMAIN fs \ DOMAIN fsBefore : fs[p].kind = "dir" /\ IsPrefix(call.dest, p)
    /\ Len(result.copied) = 2

----------------------------------------------------------------------------
(* The command run in a project where a directory is not writable: the call
   that creates an entry in it throws, nothing catches the error, and the
   process ends; the permission is restored before the command is run again *)

\* the project: nothing locked, or one directory of it locked
FaultTrees ==
    LET g == join(CWD, ".github")
    IN  {MakeTree({<<CWD, Dir>>}),
         MakeTree({<<CWD, LockedDir>>}),
         MakeTree({<<CWD, Dir>>, <<g, LockedDir>>}),
         MakeTree({<<CWD, Dir>>, <<join(join(g, "skills"), "sub"), LockedDir>>}),
         MakeTree({<<CWD, Dir>>, <<join(g, "prompts"), LockedDir>>}),
         MakeTree({<<CWD, Dir>>, <<join(g, "instructions"), LockedDir>>})}

FaultInvocations == {<<>>, <<"--auto">>, <<"-s", "--prompts">>}

InitFault ==
    /\ \E l \in Layouts, t \in FaultTrees : fs = PackageTree(l) @@ t
    /\ dirOrder \in DirOrders
    /\ pc = "idle"
    /\ options = NoOptions
    /\ catIndex = 1
    /\ totalCopied = <<>>
    /\ totalSkipped = <<>>
    /\ call = NoCall
    /\ result = NoResult
    /\ fsBefore = fs
    /\ prev = NoPrev
    /\ runs = 0
    /\ argv = <<>>

\* f with every directory writable
Unlock(f) == [p \in DOMAIN f |-> [f[p] EXCEPT !.writable = TRUE]]

\* after the process has died, the cause of the failure is removed
Repair ==
    /\ pc = "crashed"
    /\ fs # Unlock(fs)
    /\ fs' = Unlock(fs)
    /\ UNCHANGED <<argv, dirOrder, pc, options, catIndex, totalCopied, totalSkipped,
                   call, result, fsBefore, prev, runs>>

NextFault ==
    \/ \E args \in FaultInvocations : Invoke(args)
    \/ AutoSkip
    \/ InstallStart
    \/ InstallCategory
    \/ InstallStandalone
    \/ Summary
    \/ Repair

SpecFault == InitFault /\ [][NextFault]_vars

\* what a node holds, its permission aside
Content(n) == <<n.kind, n.bytes>>

\* p is as it was when the run started: absent, or there with the same content
AsBefore(p) ==
    IF p \in DOMAIN fsBefore
    THEN p \in DOMAIN fs /\ Content(fs[p]) = Content(fsBefore[p])
    ELSE p \notin DOMAIN fs

\* the loop over contentDirs stands at a category
AtCategory == catIndex <= Len(contentDirs)

\* C24: when a run has died of an uncaught file system error, (1) everything
\* that existed when it started is still there with the same content, and
\* every file reported as copied by a completed category is in place: nothing
\* is rolled back; (2) nothing at or below the directory of a later category
\* has been touched, and the standalone document has not been processed;
\* (3) no path of the failing category, of a later one or of the standalone
\* document has been reported; (4) within the failing category the files
\* written are those the traversal reached before the error: every file up
\* to some position of the traversal order is in place and every later one
\* is as it was.
C24_AbortSemantics ==
    pc = "crashed" =>
        /\ \A p \in DOMAIN fsBefore : AsBefore(p)
        /\ \A p \in SeqToSet(totalCopied) : p \in DOMAIN fs /\ p \notin DOMAIN fsBefore
        /\ \A i \in 1..Len(contentDirs) :
               i > catIndex =>
                   \A p \in DOMAIN fs \cup DOMAIN fsBefore :
                       IsPrefix(CategoryDest(contentDirs[i]), p) => AsBefore(p)
        /\ AsBefore(StandaloneDest)
        /\ StandaloneDest \notin Reported
        /\ \A i \in 1..Len(contentDirs) :
               i >= catIndex =>
                   \A p \in Reported : ~IsPrefix(CategoryDest(contentDirs[i]), p)
        /\ AtCategory =>
               LET t == CategoryOrder(contentDirs[catIndex])
               IN  \E k \in 0..Len(t) :
                       /\ \A i \in 1..k : t[i] \in DOMAIN fs
                       /\ \A i \in (k + 1)..Len(t) : AsBefore(t[i])

C24_Witness ==
    /\ pc = "crashed" /\ catIndex = 2
    /\ totalCopied # <<>>
    /\ \E q1, q2 \in ShippedFiles(contentDirs[catIndex]) :
          /\ InstalledAt(q1) \in DOMAIN fs /\ InstalledAt(q1) \notin DOMAIN fsBefore
          /\ InstalledAt(q2) \notin DOMAIN fs
    /\ options.all /\ StandaloneSrc \in DOMAIN fs /\ StandaloneDest \notin DOMAIN fs

RECURSIVE installFrom(_, _, _, _)
\* the loop over contentDirs from the i-th category on
installFrom(st, i, opts, ord) ==
    IF i > Len(contentDirs) \/ st.err # "none" THEN st
    ELSE installFrom(installCategory(st, contentDirs[i], opts, ord), i + 1, opts, ord)

\* the file system a run of the request leaves when started on f
UninterruptedRun(f, opts, ord) ==
    IF ~runsInstall(f, opts) THEN f
    ELSE LET m == mkdirSync(f, githubDirOf(opts))
             c == installFrom(Result(m.fs, <<>>, <<>>, m.err), 1, opts, ord)
         IN  IF c.err # "none" THEN c.fs ELSE installStandalone(c, opts).fs

\* the request of a run that died has been made again, after the cause of the
\* failure was removed, and has ended without a failure
Resumed ==
    /\ runs = 2 /\ prev.pc = "crashed"
    /\ prev.options = options /\ InstallRequest
    /\ fsBefore = Unlock(fsBefore)
    /\ pc \in {"done", "suppressed"}

\* C25: when the request of a run that died is made again and ends without
\* a failure, the file system is the one a run that did not fail would have
\* left when started where the run that died started, and every file the
\* run that died had written is reported as skipped.
C25_ResumeReachesSameState ==
    Resumed =>
        /\ fs = UninterruptedRun(Unlock(prev.fs), options, dirOrder)
        /\ \A p \in DOMAIN fsBefore \ DOMAIN prev.fs :
               fsBefore[p].kind = "file" => p \in SeqToSet(totalSkipped)

====
